---------------------------- MODULE Spec2Model ----------------------------
(***************************************************************************)
(* Model of the schedule core of Uni-App: time blocks, class sections,    *)
(* time-slot preferences (franjas), the combination generator and the     *)
(* metrics calculator, the result filter, and the validation of a course   *)
(* catalog (pensum).                                                       *)
(*                                                                         *)
(* A time string "HH:MM" is the pair <<HH, MM>> of the integers Python's   *)
(* int() reads from it; _time_to_minutes is the parse and FormatTime the   *)
(* f"{m // 60:02d}:{m % 60:02d}" rendering.  The opaque uuid id of a       *)
(* combination is left out.                                                *)
(***************************************************************************)
EXTENDS Integers, Sequences, FiniteSets, TLC

VARIABLES
    pc,                 \* which operation runs / how it ended
    clases_by_materia,  \* generate_combinations: course -> sections (insertion order)
    franjas,            \* the preference list handed to the operation
    max_combinations,   \* generate_combinations: the limit (None or an int)
    result,             \* generate_combinations: the returned dictionary
    blockA, blockB,     \* overlaps_with: the two blocks compared
    claseA, claseB,     \* conflicts_with: the two sections compared
    answer,             \* overlaps_with / conflicts_with: what the calls returned
    comb,               \* calculate_metrics: the HorarioCombination object
    before,             \* the object or argument as it was when the latest call began
    combinations,       \* filter_combinations: the caller's list
    filters,            \* filter_combinations: the filters dictionary
    filtered,           \* filter_combinations: the returned list
    pensum,             \* the course catalog
    report              \* what the catalog checks returned

filterVars == <<combinations, filters, filtered>>
pensumVars == <<pensum, report>>

vars == <<pc, clases_by_materia, franjas, max_combinations, result,
          blockA, blockB, claseA, claseB, answer, comb, before,
          filterVars, pensumVars>>

-----------------------------------------------------------------------------
(* Bounds of the model *)

MaxCourses == 2     \* courses in the course -> sections map
MaxFranjas == 1     \* preferences handed to generate_combinations
MaxLimit == 2       \* largest max_combinations tried
MaxBlocks == 2      \* blocks per section compared by conflicts_with
MaxMetricBlocks == 3  \* blocks per combination handed to calculate_metrics
MaxCombos == 3      \* combinations handed to filter_combinations
MaxRefs == 3        \* required codes (prerequisites and corequisites) in a small catalog

COMBINATION_WARNING_THRESHOLD == 1000

-----------------------------------------------------------------------------
(* Time strings and time blocks: app/models/clase.py *)

None == [isNone |-> TRUE, n |-> 0]
Some(k) == [isNone |-> FALSE, n |-> k]

time_to_minutes(time_str) == time_str[1] * 60 + time_str[2]

FormatTime(m) == <<m \div 60, m % 60>>

get_start_minutes(b) == time_to_minutes(b.start)

get_end_minutes(b) == time_to_minutes(b.end)

\* mutant: only one of the two "ends before the other starts" tests
overlaps_with_one_sided(self, other) ==
    IF self.day # other.day
    THEN FALSE
    ELSE ~(get_end_minutes(self) <= get_start_minutes(other))

overlaps_with(self, other) ==
    IF self.day # other.day
    THEN FALSE
    ELSE LET self_start == get_start_minutes(self)
             self_end == get_end_minutes(self)
             other_start == get_start_minutes(other)
             other_end == get_end_minutes(other)
         IN ~(self_end <= other_start \/ other_end <= self_start)

\* the nested for loops of conflicts_with / conflicts_with_blocks, returning at
\* the first overlapping pair
RECURSIVE ScanBlocks(_, _, _, _)
ScanBlocks(schedule, others, i, j) ==
    IF i > Len(schedule) THEN FALSE
    ELSE IF j > Len(others) THEN ScanBlocks(schedule, others, i + 1, 1)
    ELSE IF overlaps_with(schedule[i], others[j]) THEN TRUE
    ELSE ScanBlocks(schedule, others, i, j + 1)

conflicts_with(self, other) == ScanBlocks(self.schedule, other.schedule, 1, 1)

conflicts_with_blocks(self, blocks) == ScanBlocks(self.schedule, blocks, 1, 1)

-----------------------------------------------------------------------------
(* Preferences: app/models/horario.py *)

\* BloqueHorario's validator rejects end <= start; Franja has no such check,
\* so converting a Franja may raise
validate_time_order_raises(day, start, end) ==
    time_to_minutes(end) <= time_to_minutes(start)

to_bloque_raises(f) == validate_time_order_raises(f.day, f.start, f.end)

to_bloque(f) == [day |-> f.day, start |-> f.start, end |-> f.end]

-----------------------------------------------------------------------------
(* HorarioCombination.calculate_metrics: app/models/horario.py *)

\* a freshly constructed HorarioCombination holds the field defaults
HorarioCombination(clases, total_credits) ==
    [clases |-> clases, total_credits |-> total_credits,
     free_days |-> 0, gaps_count |-> 0, gaps_minutes |-> 0,
     preferred_slots_used |-> 0,
     earliest_start |-> <<23, 59>>, latest_end |-> <<0, 0>>]

\* every block of every section, in the order the loops
\* "for clase in self.clases: for block in clase.schedule" visit them
RECURSIVE AllBlocks(_)
AllBlocks(clases) ==
    IF clases = <<>> THEN <<>>
    ELSE Head(clases).schedule \o AllBlocks(Tail(clases))

\* the keys of days_used, in insertion order
RECURSIVE DaysUsedKeys(_, _)
DaysUsedKeys(blocks, keys) ==
    IF blocks = <<>> THEN keys
    ELSE LET day_val == Head(blocks).day
         IN DaysUsedKeys(Tail(blocks),
                IF \E k \in 1..Len(keys) : keys[k] = day_val
                THEN keys ELSE Append(keys, day_val))

\* days_used[day]: the day's blocks in append order
DaysUsedBlocks(blocks, day) == SelectSeq(blocks, LAMBDA b : b.day = day)

weekdays_with_sunday == {"L", "M", "W", "J", "V", "S", "D"}

weekdays == {"L", "M", "W", "J", "V", "S"}

\* sorted(blocks, key=start): stable, so a block goes after every block
\* already placed whose start is not greater
RECURSIVE SortedBlocks(_)
SortedBlocks(blocks) ==
    IF blocks = <<>> THEN <<>>
    ELSE LET n == Len(blocks)
             x == blocks[n]
             s == SortedBlocks(SubSeq(blocks, 1, n - 1))
             k == Cardinality({i \in 1..Len(s) :
                      get_start_minutes(s[i]) <= get_start_minutes(x)})
         IN SubSeq(s, 1, k) \o <<x>> \o SubSeq(s, k + 1, Len(s))

\* the loop "for i in range(len(sorted_blocks) - 1)" on one day, from index i
RECURSIVE DayGaps(_, _, _)
DayGaps(sorted_blocks, i, acc) ==
    IF i > Len(sorted_blocks) - 1 THEN acc
    ELSE LET current_end == get_end_minutes(sorted_blocks[i])
             next_start == get_start_minutes(sorted_blocks[i + 1])
             gap == next_start - current_end
         IN DayGaps(sorted_blocks, i + 1,
                IF gap > 0
                THEN [acc EXCEPT !.total_gaps = @ + 1,
                                 !.total_gap_minutes = @ + gap]
                ELSE acc)

Min2(a, b) == IF a <= b THEN a ELSE b
Max2(a, b) == IF a >= b THEN a ELSE b

\* what one day's sorted blocks contribute to the latest end
DayLatest(sorted_blocks) == get_end_minutes(sorted_blocks[Len(sorted_blocks)])

\* what one day's sorted blocks contribute to the earliest start
DayEarliest(sorted_blocks) == get_start_minutes(sorted_blocks[1])

\* the loop "for day, blocks in days_used.items()" from key index d
RECURSIVE DaysLoop(_, _, _, _)
DaysLoop(blocks, keys, d, acc) ==
    IF d > Len(keys) THEN acc
    ELSE LET sorted_blocks == SortedBlocks(DaysUsedBlocks(blocks, keys[d]))
             acc1 == IF sorted_blocks # <<>>
                     THEN [acc EXCEPT
                              !.earliest = Min2(@, DayEarliest(sorted_blocks)),
                              !.latest = Max2(@, DayLatest(sorted_blocks))]
                     ELSE acc
         IN DaysLoop(blocks, keys, d + 1, DayGaps(sorted_blocks, 1, acc1))

FallsWithin_ignoring_end(block, pref_block) ==
    /\ block.day = pref_block.day
    /\ get_start_minutes(block) >= get_start_minutes(pref_block)

\* the test that a class block falls within a preferred slot
FallsWithin(block, pref_block) ==
    /\ block.day = pref_block.day
    /\ get_start_minutes(block) >= get_start_minutes(pref_block)
    /\ get_end_minutes(block) <= get_end_minutes(pref_block)

\* "for pref in preferred_franjas" for one block, from index k:
\* "raise" (to_bloque failed), "hit" (counted, break) or "miss"
RECURSIVE PrefScan(_, _, _)
PrefScan(block, preferred_franjas, k) ==
    IF k > Len(preferred_franjas) THEN "miss"
    ELSE IF to_bloque_raises(preferred_franjas[k]) THEN "raise"
    ELSE IF FallsWithin(block, to_bloque(preferred_franjas[k])) THEN "hit"
    ELSE PrefScan(block, preferred_franjas, k + 1)

\* the preferred-slot loops over every block, from block index i
RECURSIVE PrefLoop(_, _, _, _)
PrefLoop(blocks, preferred_franjas, i, preferred_count) ==
    IF i > Len(blocks) THEN [raised |-> FALSE, count |-> preferred_count]
    ELSE LET r == PrefScan(blocks[i], preferred_franjas, 1)
         IN IF r = "raise" THEN [raised |-> TRUE, count |-> preferred_count]
            ELSE PrefLoop(blocks, preferred_franjas, i + 1,
                          IF r = "hit" THEN preferred_count + 1
                          ELSE preferred_count)

IsPreferred(f) == f.status = "preferred"
IsBlocked(f) == f.status = "blocked"

\* mutant: "self.preferred_slots_used += preferred_count"
calculate_metrics_accumulating(self, frs) ==
    IF self.clases = <<>> THEN [raised |-> FALSE, self |-> self]
    ELSE LET blocks == AllBlocks(self.clases)
             keys == DaysUsedKeys(blocks, <<>>)
             free == Cardinality(weekdays \ {keys[k] : k \in 1..Len(keys)})
             acc == DaysLoop(blocks, keys, 1,
                        [total_gaps |-> 0, total_gap_minutes |-> 0,
                         earliest |-> 24 * 60, latest |-> 0])
             s1 == [self EXCEPT !.free_days = free,
                                !.gaps_count = acc.total_gaps,
                                !.gaps_minutes = acc.total_gap_minutes,
                                !.earliest_start = FormatTime(acc.earliest),
                                !.latest_end = FormatTime(acc.latest)]
         IN IF frs = <<>> THEN [raised |-> FALSE, self |-> s1]
            ELSE LET p == PrefLoop(blocks, SelectSeq(frs, IsPreferred), 1, 0)
                 IN IF p.raised THEN [raised |-> TRUE, self |-> s1]
                    ELSE [raised |-> FALSE,
                          self |-> [s1 EXCEPT !.preferred_slots_used =
                                         self.preferred_slots_used + p.count]]

\* calculate_metrics(self, franjas): the object after the call, and whether
\* the call raised (the fields assigned before the raise stay assigned)
calculate_metrics(self, frs) ==
    IF self.clases = <<>> THEN [raised |-> FALSE, self |-> self]
    ELSE LET blocks == AllBlocks(self.clases)
             keys == DaysUsedKeys(blocks, <<>>)
             free == Cardinality(weekdays \ {keys[k] : k \in 1..Len(keys)})
             acc == DaysLoop(blocks, keys, 1,
                        [total_gaps |-> 0, total_gap_minutes |-> 0,
                         earliest |-> 24 * 60, latest |-> 0])
             s1 == [self EXCEPT !.free_days = free,
                                !.gaps_count = acc.total_gaps,
                                !.gaps_minutes = acc.total_gap_minutes,
                                !.earliest_start = FormatTime(acc.earliest),
                                !.latest_end = FormatTime(acc.latest)]
         IN IF frs = <<>> THEN [raised |-> FALSE, self |-> s1]
            ELSE LET p == PrefLoop(blocks, SelectSeq(frs, IsPreferred), 1, 0)
                 IN IF p.raised THEN [raised |-> TRUE, self |-> s1]
                    ELSE [raised |-> FALSE,
                          self |-> [s1 EXCEPT !.preferred_slots_used = p.count]]

-----------------------------------------------------------------------------
(* ScheduleService.generate_combinations: app/services/schedule_service.py *)

\* class_options: the section list of each course, in the map's key order
class_options(by_materia) == [c \in 1..Len(by_materia) |-> by_materia[c].clases]

\* mutant: "total_possible *= len(options)", an empty list zeroing the product
RECURSIVE total_possible_zeroing(_)
total_possible_zeroing(options) ==
    IF options = <<>> THEN 1
    ELSE total_possible_zeroing(SubSeq(options, 1, Len(options) - 1))
           * Len(options[Len(options)])

\* "total_possible *= len(options) if options else 1" over class_options
RECURSIVE total_possible(_)
total_possible(options) ==
    IF options = <<>> THEN 1
    ELSE LET last == options[Len(options)]
         IN total_possible(SubSeq(options, 1, Len(options) - 1))
              * (IF last # <<>> THEN Len(last) ELSE 1)

\* mutant: the two loops swapped, "for y in pool for x in result", so that
\* the first course varies fastest
RECURSIVE product_first_fastest(_)
product_first_fastest(pools) ==
    IF pools = <<>> THEN << <<>> >>
    ELSE LET res == product_first_fastest(SubSeq(pools, 1, Len(pools) - 1))
             pool == pools[Len(pools)]
         IN [k \in 1..(Len(res) * Len(pool)) |->
                Append(res[((k - 1) % Len(res)) + 1],
                       pool[((k - 1) \div Len(res)) + 1])]

\* itertools.product(*pools): result = [[]], then for each pool
\* result = [x + [y] for x in result for y in pool]
RECURSIVE product(_)
product(pools) ==
    IF pools = <<>> THEN << <<>> >>
    ELSE LET res == product(SubSeq(pools, 1, Len(pools) - 1))
             pool == pools[Len(pools)]
         IN [k \in 1..(Len(res) * Len(pool)) |->
                Append(res[((k - 1) \div Len(pool)) + 1],
                       pool[((k - 1) % Len(pool)) + 1])]

\* the pairwise loop over combo_list[i], combo_list[i + 1:]
has_internal_conflict(combo_list) ==
    \E i \in 1..Len(combo_list) : \E j \in (i + 1)..Len(combo_list) :
        conflicts_with(combo_list[i], combo_list[j])

\* mutant: the blocked-slot test made on the first section only
has_blocked_conflict_first_only(combo_list, blocked_slots) ==
    /\ combo_list # <<>>
    /\ conflicts_with_blocks(combo_list[1], blocked_slots)

has_blocked_conflict(combo_list, blocked_slots) ==
    \E i \in 1..Len(combo_list) :
        conflicts_with_blocks(combo_list[i], blocked_slots)

\* "if max_combinations and len(valid_combinations) >= max_combinations"
limit_hit(max, valid_combinations) ==
    /\ ~max.isNone
    /\ max.n # 0
    /\ Len(valid_combinations) >= max.n

\* the for loop over product(*class_options) from tuple index t; a raise of
\* calculate_metrics leaves the function
RECURSIVE GenLoop(_, _, _, _, _, _, _)
GenLoop(tuples, t, valid_combinations, checked, blocked_slots, frs, max) ==
    IF t > Len(tuples)
    THEN [raised |-> FALSE, valid |-> valid_combinations, checked |-> checked]
    ELSE IF limit_hit(max, valid_combinations)
    THEN [raised |-> FALSE, valid |-> valid_combinations,
          checked |-> checked + 1]
    ELSE LET combo_list == tuples[t]
         IN IF \/ has_internal_conflict(combo_list)
               \/ has_blocked_conflict(combo_list, blocked_slots)
            THEN GenLoop(tuples, t + 1, valid_combinations, checked + 1,
                         blocked_slots, frs, max)
            ELSE LET m == calculate_metrics(
                              HorarioCombination(combo_list, 0), frs)
                 IN IF m.raised
                    THEN [raised |-> TRUE, valid |-> valid_combinations,
                          checked |-> checked + 1]
                    ELSE GenLoop(tuples, t + 1,
                                 Append(valid_combinations, m.self),
                                 checked + 1, blocked_slots, frs, max)

\* the whole call: [raised, value]; value is the returned dictionary
generate_combinations(by_materia, frs, max) ==
    LET blocked == SelectSeq(frs, IsBlocked)
    IN IF \E k \in 1..Len(blocked) : to_bloque_raises(blocked[k])
       THEN [raised |-> TRUE, value |-> <<>>]
       ELSE LET blocked_slots == [k \in 1..Len(blocked) |-> to_bloque(blocked[k])]
                options == class_options(by_materia)
                possible == total_possible(options)
                loop == GenLoop(product(options), 1, <<>>, 0,
                                blocked_slots, frs, max)
            IN IF loop.raised THEN [raised |-> TRUE, value |-> <<>>]
               ELSE [raised |-> FALSE,
                     value |-> [combinations |-> loop.valid,
                                total_generated |-> Len(loop.valid),
                                total_possible |-> possible,
                                total_checked |-> loop.checked,
                                warning |-> possible > COMBINATION_WARNING_THRESHOLD]]

-----------------------------------------------------------------------------
(* Inputs of the generator *)

Bloque(day, start, end) == [day |-> day, start |-> start, end |-> end]

\* schedules of the sections on offer: two that only touch, one that
\* overlaps both and also meets on another day, and one with no block
SchedulePool ==
    { << Bloque("L", <<8, 0>>, <<9, 30>>) >>,
      << Bloque("L", <<9, 30>>, <<11, 0>>) >>,
      << Bloque("L", <<9, 0>>, <<10, 0>>), Bloque("M", <<8, 0>>, <<9, 30>>) >>,
      << >> }

ClassCodeOf(schedule) ==
    IF schedule = <<>> THEN "A0"
    ELSE IF Len(schedule) = 2 THEN "A3"
    ELSE IF schedule[1].start = <<8, 0>> THEN "A1" ELSE "A2"

\* the section lists a course may offer: at most two different sections
ScheduleLists ==
    {<<>>} \cup {<<s>> : s \in SchedulePool}
           \cup {st \in SchedulePool \X SchedulePool : st[1] # st[2]}

CourseCodes == <<"MAT1", "FIS1", "PRG1", "QUI1">>

Clase(materia_code, class_code, schedule) ==
    [materia_code |-> materia_code, class_code |-> class_code,
     schedule |-> schedule]

\* the course -> sections maps with n courses
CourseMaps(n) ==
    { [c \in 1..n |->
          [materia |-> CourseCodes[c],
           clases |-> [k \in 1..Len(ch[c]) |->
                         Clase(CourseCodes[c], ClassCodeOf(ch[c][k]), ch[c][k])]]]
      : ch \in [1..n -> ScheduleLists] }

Franja(day, start, end, status) ==
    [day |-> day, start |-> start, end |-> end, status |-> status]

\* preferences: a blocked and a preferred slot, and one of each whose end
\* is not after its start (Franja accepts them)
FranjaPool ==
    { Franja("L", <<9, 0>>, <<9, 30>>, "blocked"),
      Franja("L", <<8, 0>>, <<10, 0>>, "preferred"),
      Franja("L", <<10, 0>>, <<9, 0>>, "blocked"),
      Franja("M", <<9, 30>>, <<9, 30>>, "preferred") }

SeqsUpTo(S, n) == UNION {[1..k -> S] : k \in 0..n}

Limits == {None} \cup {Some(k) : k \in 0..MaxLimit}

-----------------------------------------------------------------------------
(* The generator as a state machine: one call on inputs drawn at Init *)

Idle == <<>>

IdleFilter == combinations = Idle /\ filters = Idle /\ filtered = Idle
IdlePensum == pensum = Idle /\ report = Idle

InitGen ==
    /\ pc = "generate"
    /\ clases_by_materia \in UNION {CourseMaps(n) : n \in 0..MaxCourses}
    /\ franjas \in SeqsUpTo(FranjaPool, MaxFranjas)
    /\ max_combinations \in Limits
    /\ result = Idle
    /\ blockA = Idle /\ blockB = Idle /\ claseA = Idle /\ claseB = Idle
    /\ answer = Idle /\ comb = Idle /\ before = Idle
    /\ IdleFilter /\ IdlePensum

Generate ==
    /\ pc = "generate"
    /\ LET r == generate_combinations(clases_by_materia, franjas, max_combinations)
       IN /\ pc' = IF r.raised THEN "generate_raised" ELSE "generate_returned"
          /\ result' = r.value
    /\ UNCHANGED <<clases_by_materia, franjas, max_combinations,
                   blockA, blockB, claseA, claseB, answer, comb, before,
                   filterVars, pensumVars>>

NextGen == Generate

SpecGen == InitGen /\ [][NextGen]_vars

-----------------------------------------------------------------------------
(* What the claims about the generator speak of, stated on the inputs *)

Mins(t) == 60 * t[1] + t[2]

\* two day+interval values share some instant
Intersect(a, b) ==
    /\ a.day = b.day
    /\ Mins(a.start) < Mins(b.end)
    /\ Mins(b.start) < Mins(a.end)

SectionsClash(s, t) ==
    \E i \in DOMAIN s.schedule : \E j \in DOMAIN t.schedule :
        Intersect(s.schedule[i], t.schedule[j])

HitsBlocked(s, frs) ==
    \E i \in DOMAIN s.schedule : \E k \in DOMAIN frs :
        frs[k].status = "blocked" /\ Intersect(s.schedule[i], frs[k])

Acceptable(tuple, frs) ==
    /\ \A i \in DOMAIN tuple : \A j \in DOMAIN tuple :
          i < j => ~SectionsClash(tuple[i], tuple[j])
    /\ \A i \in DOMAIN tuple : ~HitsBlocked(tuple[i], frs)

\* the product of the section counts of courses c..n
RECURSIVE CountFrom(_, _)
CountFrom(options, c) ==
    IF c > Len(options) THEN 1
    ELSE Len(options[c]) * CountFrom(options, c + 1)

\* the k-th tuple of the Cartesian product, last course varying fastest
TupleAt(options, k) ==
    [c \in 1..Len(options) |->
        options[c][(((k - 1) \div CountFrom(options, c + 1)) % Len(options[c])) + 1]]

Enumeration(options) == [k \in 1..CountFrom(options, 1) |-> TupleAt(options, k)]

\* the acceptable tuples, in enumeration order
Expected(options, frs) ==
    SelectSeq(Enumeration(options), LAMBDA tuple : Acceptable(tuple, frs))

Options == [c \in 1..Len(clases_by_materia) |-> clases_by_materia[c].clases]

ClassLists(combs) ==
    [k \in 1..Len(combs) |-> combs[k].clases]

Returned == pc = "generate_returned"

\* C1: every returned combination has no two sections sharing an instant and
\* no section sharing an instant with a Blocked preference
C1_NoConflictInResult ==
    Returned =>
        \A k \in DOMAIN result.combinations :
            Acceptable(result.combinations[k].clases, franjas)

\* a two-course call that accepted a combination while another tuple was
\* rejected, under a Blocked preference that excludes an offered section
C1_Witness ==
    /\ Returned
    /\ Len(clases_by_materia) = 2
    /\ result.total_generated >= 1
    /\ result.total_generated < CountFrom(Options, 1)
    /\ \E c \in DOMAIN Options : \E k \in DOMAIN Options[c] :
          HitsBlocked(Options[c][k], franjas)
    /\ \E c \in DOMAIN Options[1] : \E d \in DOMAIN Options[2] :
          SectionsClash(Options[1][c], Options[2][d])

\* C2: with no limit the returned class lists are exactly the acceptable
\* tuples of the Cartesian product in enumeration order; with no conflict and
\* no preference their number is the product of the section counts
C2_ExactEnumeration ==
    (Returned /\ max_combinations = None) =>
        /\ ClassLists(result.combinations) = Expected(Options, franjas)
        /\ (franjas = <<>> /\ \A k \in 1..CountFrom(Options, 1) :
                                 Acceptable(TupleAt(Options, k), <<>>))
              => result.total_generated = CountFrom(Options, 1)

\* two courses of two sections each, nothing conflicting, no preference: 4
C2_Witness ==
    /\ Returned /\ max_combinations = None /\ franjas = <<>>
    /\ Len(Options) = 2 /\ Len(Options[1]) = 2 /\ Len(Options[2]) = 2
    /\ result.total_generated = 4
    /\ result.total_possible = 4
    /\ ~result.warning

\* the call without a limit on the same inputs
Unlimited == generate_combinations(clases_by_materia, franjas, None).value

FirstN(seq, n) == SubSeq(seq, 1, IF n <= Len(seq) THEN n ELSE Len(seq))

\* C3: for every limit L >= 0 at most L combinations are returned, and they
\* are the first min(L, n) of the unlimited call
C3_LimitStops ==
    (Returned /\ ~max_combinations.isNone) =>
        /\ result.total_generated <= max_combinations.n
        /\ result.combinations =
             FirstN(Unlimited.combinations, max_combinations.n)

\* positions (1-based) of the tuple whose acceptance is the L-th
PositionOfAccepted(options, frs, L) ==
    {k \in 1..CountFrom(options, 1) :
        /\ Acceptable(TupleAt(options, k), frs)
        /\ Cardinality({j \in 1..k : Acceptable(TupleAt(options, j), frs)}) = L}

\* C4: when the limit was reached, total_checked is the position of the tuple
\* whose acceptance brought the accepted count to the limit
C4_CheckedIsPosition ==
    (/\ Returned /\ ~max_combinations.isNone /\ max_combinations.n >= 1
     /\ result.total_generated = max_combinations.n) =>
        result.total_checked \in
            PositionOfAccepted(Options, franjas, max_combinations.n)

\* the product over courses of the section count, an empty list counting 1
RECURSIVE PossibleFrom(_, _)
PossibleFrom(options, c) ==
    IF c > Len(options) THEN 1
    ELSE (IF Len(options[c]) = 0 THEN 1 ELSE Len(options[c]))
           * PossibleFrom(options, c + 1)

\* C5: total_generated <= total_possible and total_generated <= total_checked,
\* total_possible being the product of the section counts (empty counts 1)
C5_CountsOrdered ==
    Returned =>
        /\ result.total_possible = PossibleFrom(Options, 1)
        /\ result.total_generated <= result.total_possible
        /\ result.total_generated <= result.total_checked
        /\ result.total_generated = Len(result.combinations)

\* a limited call on a map holding a course without sections
C5_Witness ==
    /\ Returned
    /\ ~max_combinations.isNone
    /\ Len(Options) = 2
    /\ max_combinations.n >= 1
    /\ \E c \in DOMAIN Options : Options[c] = <<>>
    /\ result.total_possible = 2

\* the map without its courses that offer no section
WithoutEmpty(by_materia) == SelectSeq(by_materia, LAMBDA e : e.clases # <<>>)

\* C6: a course without sections is skipped: the call returns the class lists
\* of the call on the map with that course removed (stated for maps in which
\* some course with sections remains)
C6_EmptyCourseSkipped ==
    (/\ Returned
     /\ \E c \in DOMAIN Options : Options[c] = <<>>
     /\ \E c \in DOMAIN Options : Options[c] # <<>>) =>
        ClassLists(result.combinations) =
            ClassLists(generate_combinations(WithoutEmpty(clases_by_materia),
                                             franjas, max_combinations)
                         .value.combinations)

\* C8: generate_combinations never raises
C8_NeverRaises == pc # "generate_raised"

-----------------------------------------------------------------------------
(* overlaps_with and conflicts_with on blocks and sections drawn at Init *)

OverlapTimes == {<<8, 0>>, <<9, 30>>, <<11, 0>>}

\* BloqueHorario objects: the validator has accepted them, so end > start
OverlapBlocks ==
    {b \in {Bloque(d, s, e) : d \in {"L", "M"},
                              s \in OverlapTimes, e \in OverlapTimes} :
        ~validate_time_order_raises(b.day, b.start, b.end)}

NotCalled == <<>>

InitOverlap ==
    /\ pc = "compare"
    /\ claseA \in {Clase("MAT1", "A1", s) : s \in SeqsUpTo(OverlapBlocks, MaxBlocks)}
    /\ claseB \in {Clase("FIS1", "B1", s) : s \in SeqsUpTo(OverlapBlocks, MaxBlocks)}
    /\ blockA = Idle /\ blockB = Idle
    /\ answer = [overlaps |-> NotCalled, conflicts |-> NotCalled]
    /\ clases_by_materia = Idle /\ franjas = Idle /\ max_combinations = Idle
    /\ result = Idle /\ comb = Idle /\ before = Idle
    /\ IdleFilter /\ IdlePensum

\* a.overlaps_with(b) and b.overlaps_with(a) on a block of each section
OverlapsWith ==
    /\ pc = "compare"
    /\ answer.overlaps = NotCalled
    /\ \E i \in DOMAIN claseA.schedule : \E j \in DOMAIN claseB.schedule :
          /\ blockA' = claseA.schedule[i]
          /\ blockB' = claseB.schedule[j]
          /\ answer' = [answer EXCEPT !.overlaps =
                           <<overlaps_with(claseA.schedule[i], claseB.schedule[j]),
                             overlaps_with(claseB.schedule[j], claseA.schedule[i])>>]
    /\ UNCHANGED <<pc, claseA, claseB, clases_by_materia, franjas,
                   max_combinations, result, comb, before,
                   filterVars, pensumVars>>

\* a.conflicts_with(b) and b.conflicts_with(a) on the two sections
ConflictsWith ==
    /\ pc = "compare"
    /\ answer.conflicts = NotCalled
    /\ answer' = [answer EXCEPT !.conflicts =
                     <<conflicts_with(claseA, claseB),
                       conflicts_with(claseB, claseA)>>]
    /\ UNCHANGED <<pc, blockA, blockB, claseA, claseB, clases_by_materia,
                   franjas, max_combinations, result, comb, before,
                   filterVars, pensumVars>>

NextOverlap == OverlapsWith \/ ConflictsWith

SpecOverlap == InitOverlap /\ [][NextOverlap]_vars

\* C9: overlaps_with is symmetric, false across days, true on one day exactly
\* when neither block ends at or before the other's start (touching blocks do
\* not overlap); conflicts_with holds exactly when some block of one section
\* overlaps some block of the other, and is symmetric
C9_OverlapRelation ==
    /\ answer.overlaps # NotCalled =>
          /\ answer.overlaps[1] = answer.overlaps[2]
          /\ blockA.day # blockB.day => ~answer.overlaps[1]
          /\ blockA.day = blockB.day =>
                (answer.overlaps[1] <=>
                    ~(\/ Mins(blockA.end) <= Mins(blockB.start)
                      \/ Mins(blockB.end) <= Mins(blockA.start)))
          /\ (Mins(blockA.end) = Mins(blockB.start)) => ~answer.overlaps[1]
    /\ answer.conflicts # NotCalled =>
          /\ answer.conflicts[1] <=> SectionsClash(claseA, claseB)
          /\ answer.conflicts[1] = answer.conflicts[2]

\* both calls made: two same-day blocks that only touch were found not to
\* overlap, while the sections conflict through another pair of blocks
C9_Witness ==
    /\ answer.overlaps # NotCalled /\ answer.conflicts # NotCalled
    /\ blockA.day = blockB.day
    /\ Mins(blockA.end) = Mins(blockB.start)
    /\ ~answer.overlaps[1]
    /\ answer.conflicts[1]
    /\ ~Intersect(claseA.schedule[1], claseB.schedule[1])

-----------------------------------------------------------------------------
(* calculate_metrics on a combination drawn at Init, called again after  *)
(* the caller changed the preferences or emptied the class list          *)

MetricTimes == {<<8, 0>>, <<9, 30>>, <<10, 15>>, <<12, 0>>}

\* every interval of the grid on Monday, one block on Saturday and on Sunday
MetricBlocks ==
    {b \in {Bloque("L", s, e) : s \in MetricTimes, e \in MetricTimes} :
        ~validate_time_order_raises(b.day, b.start, b.end)}
      \cup {Bloque("S", <<8, 0>>, <<9, 30>>), Bloque("D", <<8, 0>>, <<9, 30>>)}

\* class lists of one or two sections holding at most MaxMetricBlocks blocks
MetricClases ==
    {<<>>}
      \cup {<<Clase("MAT1", "A1", b)>> : b \in SeqsUpTo(MetricBlocks, MaxMetricBlocks)}
      \cup UNION {
             {<<Clase("MAT1", "A1", SubSeq(b, 1, k)),
               Clase("FIS1", "B1", SubSeq(b, k + 1, Len(b)))>>
                : k \in 0..Len(b)}
             : b \in SeqsUpTo(MetricBlocks, MaxMetricBlocks)}

\* preference lists: none, one preferred window, one blocked window, a
\* preferred window whose end is not after its start, two preferred windows
MetricFranjas ==
    { <<>>,
      <<Franja("L", <<8, 0>>, <<10, 15>>, "preferred")>>,
      <<Franja("L", <<9, 0>>, <<9, 30>>, "blocked")>>,
      <<Franja("M", <<9, 30>>, <<9, 30>>, "preferred")>>,
      <<Franja("L", <<8, 0>>, <<10, 15>>, "preferred"),
        Franja("L", <<8, 0>>, <<12, 0>>, "preferred")>> }

InitMetrics ==
    /\ pc = "metrics"
    /\ comb \in {HorarioCombination(cl, 0) : cl \in MetricClases}
    /\ franjas \in MetricFranjas
    /\ before = Idle
    /\ clases_by_materia = Idle /\ max_combinations = Idle /\ result = Idle
    /\ blockA = Idle /\ blockB = Idle /\ claseA = Idle /\ claseB = Idle
    /\ answer = Idle
    /\ IdleFilter /\ IdlePensum

\* the first call on the fresh object
CalculateMetrics ==
    /\ pc = "metrics"
    /\ LET r == calculate_metrics(comb, franjas)
       IN /\ comb' = r.self
          /\ pc' = IF r.raised THEN "metrics_raised" ELSE "metrics_done"
    /\ UNCHANGED <<clases_by_materia, franjas, max_combinations, result,
                   blockA, blockB, claseA, claseB, answer, before,
                   filterVars, pensumVars>>

\* the caller empties the class list of the object
ClearClases ==
    /\ pc = "metrics_done"
    /\ comb.clases # <<>>
    /\ comb' = [comb EXCEPT !.clases = <<>>]
    /\ pc' = "metrics_cleared"
    /\ UNCHANGED <<clases_by_materia, franjas, max_combinations, result,
                   blockA, blockB, claseA, claseB, answer, before,
                   filterVars, pensumVars>>

\* a further call on the same object, with the same or other preferences;
\* before keeps the object and the preferences as they were when it began
CalculateAgain ==
    /\ pc \in {"metrics_done", "metrics_cleared"}
    /\ \E f \in MetricFranjas :
          LET r == calculate_metrics(comb, f)
          IN /\ comb' = r.self
             /\ franjas' = f
             /\ pc' = IF r.raised THEN "metrics_raised_again" ELSE "metrics_again"
    /\ before' = [comb |-> comb, franjas |-> franjas, pc |-> pc]
    /\ UNCHANGED <<clases_by_materia, max_combinations, result,
                   blockA, blockB, claseA, claseB, answer,
                   filterVars, pensumVars>>

NextMetrics == CalculateMetrics \/ ClearClases \/ CalculateAgain

SpecMetrics == InitMetrics /\ [][NextMetrics]_vars

CombBlocks ==
    {b \in MetricBlocks :
        \E c \in DOMAIN comb.clases : \E i \in DOMAIN comb.clases[c].schedule :
            comb.clases[c].schedule[i] = b}

\* C10: with at least one block, earliest_start is the minimum start and
\* latest_end the maximum end over all blocks of the combination
C10_GlobalBounds ==
    (pc = "metrics_done" /\ CombBlocks # {}) =>
        /\ \E b \in CombBlocks : Mins(comb.earliest_start) = Mins(b.start)
        /\ \A b \in CombBlocks : Mins(comb.earliest_start) <= Mins(b.start)
        /\ \E b \in CombBlocks : Mins(comb.latest_end) = Mins(b.end)
        /\ \A b \in CombBlocks : Mins(comb.latest_end) >= Mins(b.end)

AllDays == {"L", "M", "W", "J", "V", "S", "D"}

DayBlocks(d) == {b \in CombBlocks : b.day = d}

\* some block of the day is in session at minute m
InSession(d, m) ==
    \E b \in DayBlocks(d) : Mins(b.start) <= m /\ m < Mins(b.end)

\* minutes at which an idle interval of the day begins: a block ends there,
\* no block is in session, and a block starts later
IdleStarts(d) ==
    {m \in {Mins(b.end) : b \in DayBlocks(d)} :
        /\ ~InSession(d, m)
        /\ \E b \in DayBlocks(d) : Mins(b.start) > m}

\* the idle interval beginning at m ends at the next start of the day
IdleLength(d, m) ==
    LET later == {Mins(b.start) : b \in {x \in DayBlocks(d) : Mins(x.start) > m}}
    IN (CHOOSE t \in later : \A u \in later : t <= u) - m

RECURSIVE SumIdle(_, _)
SumIdle(d, starts) ==
    IF starts = {} THEN 0
    ELSE LET m == CHOOSE x \in starts : TRUE
         IN IdleLength(d, m) + SumIdle(d, starts \ {m})

IdleCountOn(d) == Cardinality(IdleStarts(d))
IdleMinutesOn(d) == SumIdle(d, IdleStarts(d))

RECURSIVE IdleCount(_)
IdleCount(days) ==
    IF days = {} THEN 0
    ELSE LET d == CHOOSE x \in days : TRUE
         IN IdleCountOn(d) + IdleCount(days \ {d})

RECURSIVE IdleMinutes(_)
IdleMinutes(days) ==
    IF days = {} THEN 0
    ELSE LET d == CHOOSE x \in days : TRUE
         IN IdleMinutesOn(d) + IdleMinutes(days \ {d})

\* C11: after calculate_metrics on a combination with sections, gaps_count is
\* the number of idle intervals between same-day blocks (maximal stretches
\* between a day's first start and last end with no block in session) and
\* gaps_minutes the sum of their lengths, overlapping blocks included
C11_GapsAreIdleIntervals ==
    (pc = "metrics_done" /\ comb.clases # <<>>) =>
        /\ comb.gaps_count = IdleCount(AllDays)
        /\ comb.gaps_minutes = IdleMinutes(AllDays)

Called == {"metrics_done", "metrics_raised", "metrics_again", "metrics_raised_again"}

\* C12: after calculate_metrics on a combination with at least one section,
\* free_days is 6 minus the number of days Monday..Saturday that carry a
\* block; Sunday blocks do not count, and the value lies in 0..6
C12_FreeDays ==
    (pc \in Called /\ comb.clases # <<>>) =>
        /\ comb.free_days =
              6 - Cardinality({d \in AllDays \ {"D"} : DayBlocks(d) # {}})
        /\ comb.free_days \in 0..6

\* a combination with blocks on Monday, Saturday and Sunday has four free days
C12_Witness ==
    /\ pc = "metrics_done"
    /\ DayBlocks("L") # {} /\ DayBlocks("S") # {} /\ DayBlocks("D") # {}
    /\ comb.free_days = 4

\* the block lies on the day of a Preferred preference of the list and is
\* nested in it
InPreferred(b, frs) ==
    \E k \in DOMAIN frs :
        /\ frs[k].status = "preferred"
        /\ frs[k].day = b.day
        /\ Mins(b.start) >= Mins(frs[k].start)
        /\ Mins(b.end) <= Mins(frs[k].end)

\* positions <<section, index>> of the blocks of a class list
Positions(clases) ==
    UNION {{<<k, i>> : i \in DOMAIN clases[k].schedule} : k \in DOMAIN clases}

PreferredPositions(clases, frs) ==
    {ci \in Positions(clases) : InPreferred(clases[ci[1]].schedule[ci[2]], frs)}

MetricsOf(c) ==
    <<c.free_days, c.gaps_count, c.gaps_minutes, c.preferred_slots_used,
      c.earliest_start, c.latest_end>>

\* the call that just ended followed a call on the unchanged object
SecondInARow == pc \in {"metrics_again", "metrics_raised_again"}
                    /\ before.pc = "metrics_done"

\* C14: a second calculate_metrics call in a row with the same preferences
\* does not raise and leaves the six metric fields as the first call left them
C14_Idempotent ==
    (SecondInARow /\ before.franjas = franjas) =>
        /\ pc = "metrics_again"
        /\ MetricsOf(comb) = MetricsOf(before.comb)

\* a second call in a row with the same preferences on a combination that
\* has a gap and a block in a Preferred window
C14_Witness ==
    /\ SecondInARow /\ before.franjas = franjas
    /\ comb.gaps_count >= 1
    /\ comb.preferred_slots_used >= 1
    /\ comb.free_days < 6

Defaults == MetricsOf(HorarioCombination(<<>>, 0))

\* C15: after a calculate_metrics call that returns, the six metric fields
\* depend only on the current class list and the preferences of the call, not
\* on what the fields held before: they are what the call gives on a fresh
\* object; with an empty class list they are the defaults, and with no
\* Preferred preference preferred_slots_used is 0
C15_NeverStale ==
    pc \in {"metrics_done", "metrics_again"} =>
        /\ MetricsOf(comb) =
              MetricsOf(calculate_metrics(
                            HorarioCombination(comb.clases, 0), franjas).self)
        /\ comb.clases = <<>> => MetricsOf(comb) = Defaults
        /\ SelectSeq(franjas, IsPreferred) = <<>> => comb.preferred_slots_used = 0

-----------------------------------------------------------------------------
(* ScheduleService.filter_combinations: app/services/schedule_service.py *)

\* a bound of the filters dictionary: the key is missing or holds None (for
\* the two time bounds also the empty string), or it holds a value
NoTime == [isNone |-> TRUE, n |-> <<0, 0>>]
SomeTime(t) == [isNone |-> FALSE, n |-> t]

\* the key sort_by / sort_order is missing from the dictionary
Absent == "(absent)"

passes_min_free_days(c, bound) == c.free_days >= bound

\* mutant: "c.gaps_count < filters['max_gaps']"
passes_max_gaps_strict(c, bound) == c.gaps_count < bound

passes_max_gaps(c, bound) == c.gaps_count <= bound

passes_max_gap_minutes(c, bound) == c.gaps_minutes <= bound

passes_earliest_start(c, min_start) == time_to_minutes(c.earliest_start) >= min_start

passes_latest_end(c, max_end) == time_to_minutes(c.latest_end) <= max_end

\* the five "if ... in filters" list comprehensions, in order
apply_filters(list, fs) ==
    LET f1 == IF fs.min_free_days.isNone THEN list
              ELSE SelectSeq(list,
                       LAMBDA c : passes_min_free_days(c, fs.min_free_days.n))
        f2 == IF fs.max_gaps.isNone THEN f1
              ELSE SelectSeq(f1, LAMBDA c : passes_max_gaps(c, fs.max_gaps.n))
        f3 == IF fs.max_gap_minutes.isNone THEN f2
              ELSE SelectSeq(f2,
                       LAMBDA c : passes_max_gap_minutes(c, fs.max_gap_minutes.n))
        f4 == IF fs.earliest_start.isNone THEN f3
              ELSE SelectSeq(f3,
                       LAMBDA c : passes_earliest_start(c,
                                      time_to_minutes(fs.earliest_start.n)))
    IN IF fs.latest_end.isNone THEN f4
       ELSE SelectSeq(f4,
                LAMBDA c : passes_latest_end(c, time_to_minutes(fs.latest_end.n)))

\* filters.get('sort_by', 'free_days') and filters.get('sort_order', 'desc')
get_sort_by(fs) == IF fs.sort_by = Absent THEN "free_days" ELSE fs.sort_by
get_sort_order(fs) == IF fs.sort_order = Absent THEN "desc" ELSE fs.sort_order

\* mutant: the sort direction never reversed
reverse_never(sort_by, sort_order) == FALSE

\* the variable reverse when filtered.sort runs: 'desc', inverted for gaps
reverse_at_sort(sort_by, sort_order) ==
    IF sort_by \in {"gaps_count", "gaps_minutes"}
    THEN sort_order = "asc"
    ELSE sort_order = "desc"

\* mutant: the key functions reading reverse as it was when they were defined
reverse_at_definition(sort_by, sort_order) == sort_order = "desc"

\* the variable reverse as the key functions of sort_key_map read it: they
\* are closures, called by filtered.sort after the last assignment
reverse_in_key(sort_by, sort_order) == reverse_at_sort(sort_by, sort_order)

sort_key_names ==
    {"free_days", "gaps_count", "gaps_minutes", "preferred_slots",
     "earliest_start", "latest_end"}

\* sort_key_map[sort_by](c)
sort_key(sort_by, sort_order, c) ==
    CASE sort_by = "free_days" -> c.free_days
      [] sort_by = "gaps_count" ->
            IF reverse_in_key(sort_by, sort_order) THEN 0 - c.gaps_count
            ELSE c.gaps_count
      [] sort_by = "gaps_minutes" ->
            IF reverse_in_key(sort_by, sort_order) THEN 0 - c.gaps_minutes
            ELSE c.gaps_minutes
      [] sort_by = "preferred_slots" -> c.preferred_slots_used
      [] sort_by = "earliest_start" -> time_to_minutes(c.earliest_start)
      [] sort_by = "latest_end" -> time_to_minutes(c.latest_end)

\* list.sort(key, reverse) is stable in both directions: an element goes
\* after every element already placed that does not have to follow it
RECURSIVE ListSort(_, _, _, _, _)
ListSort(list, i, placed, keys, reverse) ==
    IF i > Len(list) THEN placed
    ELSE LET stays(k) == IF reverse THEN keys[k] >= keys[i]
                         ELSE keys[k] <= keys[i]
             front == SelectSeq(placed, stays)
             back == SelectSeq(placed, LAMBDA k : ~stays(k))
         IN ListSort(list, i + 1, front \o <<i>> \o back, keys, reverse)

\* filter_combinations(combinations, filters): the returned list, and the
\* caller's list after the call (the work is done on a copy)
filter_combinations(combs, fs) ==
    LET filtered0 == apply_filters(combs, fs)
        sort_by == get_sort_by(fs)
        sort_order == get_sort_order(fs)
        keys == [k \in 1..Len(filtered0) |->
                    sort_key(sort_by, sort_order, filtered0[k])]
        order == ListSort(filtered0, 1, <<>>, keys,
                          reverse_at_sort(sort_by, sort_order))
    IN [filtered |-> IF sort_by \in sort_key_names
                     THEN [k \in 1..Len(filtered0) |-> filtered0[order[k]]]
                     ELSE filtered0,
        combinations |-> combs]

\* HorarioCombination.from_dict: a stored combination with its id and metrics
StoredCombination(id, free_days, gaps_count, gaps_minutes, preferred_slots_used, earliest_start, latest_end) ==
    [id |-> id, free_days |-> free_days, gaps_count |-> gaps_count,
     gaps_minutes |-> gaps_minutes,
     preferred_slots_used |-> preferred_slots_used,
     earliest_start |-> earliest_start, latest_end |-> latest_end]

\* four stored combinations; K4 is an empty one with the default metrics
FilterPool ==
    { StoredCombination("K1", 3, 0, 0, 2, <<8, 0>>, <<9, 30>>),
      StoredCombination("K2", 2, 1, 45, 0, <<10, 15>>, <<12, 0>>),
      StoredCombination("K3", 1, 2, 45, 1, <<8, 0>>, <<12, 0>>),
      StoredCombination("K4", 0, 0, 0, 0, <<23, 59>>, <<0, 0>>) }

FilterDicts ==
    [min_free_days : {None, Some(2)},
     max_gaps : {None, Some(1)},
     max_gap_minutes : {None, Some(0)},
     earliest_start : {NoTime, SomeTime(<<9, 0>>)},
     latest_end : {NoTime, SomeTime(<<12, 0>>)},
     sort_by : sort_key_names \cup {Absent, "credits"},
     sort_order : {Absent, "asc", "desc"}]

InitFilter ==
    /\ pc = "filter"
    /\ combinations \in SeqsUpTo(FilterPool, MaxCombos)
    /\ filters \in FilterDicts
    /\ filtered = Idle
    /\ before = Idle
    /\ clases_by_materia = Idle /\ franjas = Idle /\ max_combinations = Idle
    /\ result = Idle /\ comb = Idle
    /\ blockA = Idle /\ blockB = Idle /\ claseA = Idle /\ claseB = Idle
    /\ answer = Idle
    /\ IdlePensum

\* one call; before keeps the caller's list as it was when the call began
FilterCombinations ==
    /\ pc = "filter"
    /\ LET r == filter_combinations(combinations, filters)
       IN /\ filtered' = r.filtered
          /\ combinations' = r.combinations
    /\ before' = combinations
    /\ pc' = "filter_returned"
    /\ UNCHANGED <<filters, clases_by_materia, franjas, max_combinations, result,
                   blockA, blockB, claseA, claseB, answer, comb, pensumVars>>

NextFilter == FilterCombinations

SpecFilter == InitFilter /\ [][NextFilter]_vars

\* the combination satisfies every bound the dictionary supplies
Satisfies(c) ==
    /\ filters.min_free_days.isNone \/ c.free_days >= filters.min_free_days.n
    /\ filters.max_gaps.isNone \/ c.gaps_count <= filters.max_gaps.n
    /\ filters.max_gap_minutes.isNone \/ c.gaps_minutes <= filters.max_gap_minutes.n
    /\ filters.earliest_start.isNone
          \/ Mins(c.earliest_start) >= Mins(filters.earliest_start.n)
    /\ filters.latest_end.isNone
          \/ Mins(c.latest_end) <= Mins(filters.latest_end.n)

Occurrences(list, c) == Cardinality({k \in DOMAIN list : list[k] = c})

FilterReturned == pc = "filter_returned"

\* C16: filter_combinations returns exactly the input combinations, with
\* multiplicity, that satisfy every supplied bound (a missing bound excludes
\* nothing), and leaves the caller's list as it was
C16_ExactlySatisfying ==
    FilterReturned =>
        /\ \A c \in FilterPool :
              Occurrences(filtered, c) =
                  IF Satisfies(c) THEN Occurrences(before, c) ELSE 0
        /\ combinations = before

\* a call with a max_gaps bound that kept, twice, a combination sitting
\* exactly on the bound and dropped another one
C16_Witness ==
    /\ FilterReturned
    /\ ~filters.max_gaps.isNone
    /\ \E c \in FilterPool :
          /\ c.gaps_count = filters.max_gaps.n
          /\ Occurrences(filtered, c) = 2
    /\ Len(filtered) < Len(before)

NonDecreasing(list, key(_)) ==
    \A i, j \in DOMAIN list : i < j => key(list[i]) <= key(list[j])

NonIncreasing(list, key(_)) ==
    \A i, j \in DOMAIN list : i < j => key(list[i]) >= key(list[j])

GapsCountOf(c) == c.gaps_count
GapsMinutesOf(c) == c.gaps_minutes
FreeDaysOf(c) == c.free_days
PreferredOf(c) == c.preferred_slots_used
EarliestOf(c) == Mins(c.earliest_start)
LatestOf(c) == Mins(c.latest_end)

\* C17: sorted by gaps_count or gaps_minutes, the result is in non-decreasing
\* order of that value for sort_order 'asc' and for 'desc' alike
C17_GapsAscendingBothOrders ==
    (FilterReturned /\ filters.sort_order \in {"asc", "desc"}) =>
        /\ filters.sort_by = "gaps_count" => NonDecreasing(filtered, GapsCountOf)
        /\ filters.sort_by = "gaps_minutes" => NonDecreasing(filtered, GapsMinutesOf)

\* sorted by gaps_count with 'asc', a list that came in another order is
\* returned with strictly growing gap counts
C17_Witness ==
    /\ FilterReturned
    /\ filters.sort_by = "gaps_count" /\ filters.sort_order = "asc"
    /\ Len(filtered) = 3
    /\ filtered[1].gaps_count < filtered[2].gaps_count
    /\ filtered[2].gaps_count < filtered[3].gaps_count
    /\ ~NonDecreasing(before, GapsCountOf)

\* C18: sorted by free_days, preferred_slots, earliest_start or latest_end the
\* result is non-increasing in that value for 'desc' and non-decreasing for
\* 'asc'; with no sort option it is in descending free_days order; with an
\* unrecognised sort_by the kept combinations stay in input order
C18_SortDirections ==
    FilterReturned =>
        /\ filters.sort_order = "desc" =>
              /\ filters.sort_by = "free_days" => NonIncreasing(filtered, FreeDaysOf)
              /\ filters.sort_by = "preferred_slots" =>
                    NonIncreasing(filtered, PreferredOf)
              /\ filters.sort_by = "earliest_start" =>
                    NonIncreasing(filtered, EarliestOf)
              /\ filters.sort_by = "latest_end" => NonIncreasing(filtered, LatestOf)
        /\ filters.sort_order = "asc" =>
              /\ filters.sort_by = "free_days" => NonDecreasing(filtered, FreeDaysOf)
              /\ filters.sort_by = "preferred_slots" =>
                    NonDecreasing(filtered, PreferredOf)
              /\ filters.sort_by = "earliest_start" =>
                    NonDecreasing(filtered, EarliestOf)
              /\ filters.sort_by = "latest_end" => NonDecreasing(filtered, LatestOf)
        /\ (filters.sort_by = Absent /\ filters.sort_order = Absent) =>
              NonIncreasing(filtered, FreeDaysOf)
        /\ filters.sort_by \notin sort_key_names \cup {Absent} =>
              filtered = SelectSeq(before, Satisfies)

\* sorted by earliest_start with 'desc', a list that came in growing order of
\* start is returned in strictly falling order
C18_Witness ==
    /\ FilterReturned
    /\ filters.sort_by = "earliest_start" /\ filters.sort_order = "desc"
    /\ Len(filtered) = 3
    /\ EarliestOf(filtered[1]) > EarliestOf(filtered[2])
    /\ EarliestOf(filtered[2]) > EarliestOf(filtered[3])
    /\ NonDecreasing(before, EarliestOf)

-----------------------------------------------------------------------------
(* The course catalog: app/models/materia.py and the catalog checks of    *)
(* PensumService: app/services/pensum_service.py.  A course carries its    *)
(* code, credits, semester and the two lists of required codes; name,      *)
(* colour, status and grade play no part in the checks and are left out.   *)

\* str.upper() on the codes the model uses
upper(code) ==
    CASE code = "mat1" -> "MAT1"
      [] code = "mat2" -> "MAT2"
      [] code = "mat3" -> "MAT3"
      [] code = "mat1 " -> "MAT1 "
      [] OTHER -> code

\* str.strip() on the codes the model uses
strip(code) ==
    CASE code = "MAT1 " -> "MAT1"
      [] code = "mat1 " -> "mat1"
      [] OTHER -> code

\* the validators' "v.upper().strip()"
normalized(code) == strip(upper(code))

\* Materia: the validators store the code and the required codes upper-cased
\* and stripped
Materia(code, credits, semester, prerequisites, corequisites) ==
    [code |-> normalized(code), credits |-> credits, semester |-> semester,
     prerequisites |->
         [k \in DOMAIN prerequisites |-> normalized(prerequisites[k])],
     corequisites |->
         [k \in DOMAIN corequisites |-> normalized(corequisites[k])]]

RECURSIVE SumCredits(_)
SumCredits(materias) ==
    IF materias = <<>> THEN 0
    ELSE materias[1].credits + SumCredits(Tail(materias))

\* Pensum: model_post_init sets total_credits
Pensum(materias) ==
    [materias |-> materias, total_credits |-> SumCredits(materias)]

\* pensum.get_materia(code): the first course with the upper-cased code
NoMateria == [found |-> FALSE, semester |-> 0]

get_materia(p, code) ==
    LET hits == SelectSeq(p.materias, LAMBDA m : m.code = upper(code))
    IN IF hits = <<>> THEN NoMateria
       ELSE [found |-> TRUE, semester |-> hits[1].semester]

\* {m.code for m in pensum.materias}
materia_codes(p) == {p.materias[k].code : k \in DOMAIN p.materias}

\* mutant: the graph built from "materia.prerequisites" alone
requirements_prerequisites_only(materia) == materia.prerequisites

\* materia.prerequisites + materia.corequisites
requirements(materia) == materia.prerequisites \o materia.corequisites

\* the edges the two loops of detect_circular_dependencies add, one per
\* requirement that is in the catalog: <<requirement, dependent>>
RECURSIVE GraphEdges(_, _)
GraphEdges(materias, codes) ==
    IF materias = <<>> THEN <<>>
    ELSE LET m == materias[1]
             known == SelectSeq(requirements(m), LAMBDA r : r \in codes)
         IN [k \in DOMAIN known |-> <<known[k], m.code>>]
              \o GraphEdges(Tail(materias), codes)

\* graph[current]: the dependents of a code, in append order
Neighbors(edges, current) ==
    LET out == SelectSeq(edges, LAMBDA e : e[1] = current)
    IN [k \in DOMAIN out |-> out[k][2]]

\* in_degree after the construction loops
InDegree(edges, codes) ==
    [c \in codes |-> Cardinality({k \in DOMAIN edges : edges[k][2] = c})]

\* "for neighbor in graph[current]": decrement, enqueue at zero
RECURSIVE Relax(_, _, _, _)
Relax(neighbors, k, in_degree, queue) ==
    IF k > Len(neighbors) THEN [in_degree |-> in_degree, queue |-> queue]
    ELSE LET n == neighbors[k]
             d == [in_degree EXCEPT ![n] = @ - 1]
         IN Relax(neighbors, k + 1, d,
                  IF d[n] = 0 THEN Append(queue, n) ELSE queue)

\* "while queue": popleft, count, relax
RECURSIVE KahnLoop(_, _, _, _)
KahnLoop(queue, in_degree, sorted_count, edges) ==
    IF queue = <<>> THEN [in_degree |-> in_degree, sorted_count |-> sorted_count]
    ELSE LET r == Relax(Neighbors(edges, Head(queue)), 1, in_degree, Tail(queue))
         IN KahnLoop(r.queue, r.in_degree, sorted_count + 1, edges)

\* the codes of a set as a sequence, standing for one iteration order of it
RECURSIVE SetToSeq(_)
SetToSeq(S) ==
    IF S = {} THEN <<>>
    ELSE LET x == CHOOSE y \in S : TRUE IN <<x>> \o SetToSeq(S \ {x})

\* remaining: the codes whose in_degree stayed positive (empty when
\* sorted_count = len(codes)); the counts at the end of the loop do not
\* depend on the order in which the set codes seeded the queue
remaining(p) ==
    LET codes == materia_codes(p)
        edges == GraphEdges(p.materias, codes)
        in_degree == InDegree(edges, codes)
        k == KahnLoop(SetToSeq({c \in codes : in_degree[c] = 0}), in_degree, 0, edges)
    IN IF k.sorted_count # Cardinality(codes)
       THEN {c \in codes : k.in_degree[c] > 0}
       ELSE {}

WitnessLimit == 5

NoCycle == [isNone |-> TRUE, codes |-> {}]
Cycle(codes) == [isNone |-> FALSE, codes |-> codes]

Smaller(a, b) == IF a < b THEN a ELSE b

\* detect_circular_dependencies(pensum): the values the call can return.
\* remaining[:5] takes the first five codes in the iteration order of a set
\* of strings, which differs from run to run: any five of them; the order
\* inside the returned list is left out
detect_circular_dependencies(p) ==
    LET left == remaining(p)
    IN IF left = {} THEN {NoCycle}
       ELSE {Cycle(w) : w \in {s \in SUBSET left :
                 Cardinality(s) = Smaller(WitnessLimit, Cardinality(left))}}

\* an entry of the errors list: its kind and the codes its text names
Error(kind, code, ref, cycle) ==
    [kind |-> kind, code |-> code, ref |-> ref, cycle |-> cycle]

not_found(kind, materia, refs, codes) ==
    LET missing == SelectSeq(refs, LAMBDA r : r \notin codes)
    IN [k \in DOMAIN missing |-> Error(kind, materia.code, missing[k], {})]

\* mutant: "prereq_materia.semester > materia.semester"
semester_later(prereq_materia, materia) ==
    prereq_materia.found /\ prereq_materia.semester > materia.semester

\* "if prereq_materia and prereq_materia.semester >= materia.semester"
semester_not_earlier(prereq_materia, materia) ==
    prereq_materia.found /\ prereq_materia.semester >= materia.semester

semester_errors(materia, p) ==
    LET late == SelectSeq(materia.prerequisites,
                    LAMBDA r : semester_not_earlier(get_materia(p, r), materia))
    IN [k \in DOMAIN late |-> Error("semester", materia.code, late[k], {})]

\* "for materia in pensum.materias": the entries each course adds
RECURSIVE MateriaErrors(_, _, _)
MateriaErrors(materias, codes, p) ==
    IF materias = <<>> THEN <<>>
    ELSE LET m == materias[1]
         IN not_found("prerequisite", m, m.prerequisites, codes)
              \o not_found("corequisite", m, m.corequisites, codes)
              \o semester_errors(m, p)
              \o MateriaErrors(Tail(materias), codes, p)

\* validate_pensum_structure(pensum), given what the cycle check returned
validate_pensum_structure(p, cycle) ==
    LET errors == MateriaErrors(p.materias, materia_codes(p), p)
                    \o (IF cycle.isNone THEN <<>>
                        ELSE <<Error("cycle", "", "", cycle.codes)>>)
    IN [valid |-> Len(errors) = 0, errors |-> errors]

(* Catalogs drawn at Init *)

PensumCodes == <<"MAT1", "MAT2", "MAT3">>

\* a code no course of the catalog carries
MissingCode == "ZZZ9"

RefCodes == PensumCodes \o <<MissingCode>>

Semesters == {1, 2}

\* places a required code can stand, numbered from 1: list (prerequisites
\* first), course index, code
SlotCount(n) == 2 * n * Len(RefCodes)

SlotOf(list, i, c, n) ==
    (IF list = "prerequisites" THEN 0 ELSE n * Len(RefCodes))
        + (i - 1) * Len(RefCodes) + c

\* the choices of at most k places among count: strictly increasing sequences
RECURSIVE SlotChoices(_, _)
SlotChoices(count, k) ==
    IF k = 0 THEN {<<>>}
    ELSE LET shorter == SlotChoices(count, k - 1)
         IN shorter \cup
              {Append(q, x) : q \in {r \in shorter : Len(r) = k - 1},
                              x \in 1..count}

Increasing(q) == \A j \in 1..(Len(q) - 1) : q[j] < q[j + 1]

RefList(R, list, i, n) ==
    LET at == SelectSeq([c \in DOMAIN RefCodes |-> c],
                  LAMBDA c : \E j \in DOMAIN R : R[j] = SlotOf(list, i, c, n))
    IN [k \in DOMAIN at |-> RefCodes[at[k]]]

\* the first n codes as courses of 3 credits, with the requirements R and
\* the semesters sem
Catalog(n, R, sem) ==
    Pensum([i \in 1..n |->
               Materia(PensumCodes[i], 3, sem[i],
                       RefList(R, "prerequisites", i, n),
                       RefList(R, "corequisites", i, n))])

RefChoices(n, refs) == {q \in SlotChoices(SlotCount(n), refs) : Increasing(q)}

\* catalogs of n courses with at most refs required codes in all
CatalogsOf(n, refs) ==
    {Catalog(n, c[1], c[2]) : c \in RefChoices(n, refs) \X [1..n -> Semesters]}

RingCodes == <<"R1", "R2", "R3", "R4", "R5", "R6", "R7">>

\* n courses in a ring of prerequisites, each requiring the one before it,
\* followed by the courses of a chain that hangs off the ring
Ring(n) ==
    Pensum([i \in 1..Len(RingCodes) |->
               Materia(RingCodes[i], 3, 1,
                       <<RingCodes[IF i = 1 THEN n ELSE i - 1]>>, <<>>)])

\* catalogs of seven courses: more codes left over than a witness holds
BigCatalogs == {Ring(n) : n \in {1, 2, 6, 7}}

NoReport == [validation |-> NotCalled, cycle |-> NotCalled]

InitPensum ==
    /\ pc = "pensum"
    /\ \/ \E n \in 0..Len(PensumCodes) : pensum \in CatalogsOf(n, MaxRefs)
       \/ pensum \in BigCatalogs
    /\ report = NoReport
    /\ before = Idle
    /\ clases_by_materia = Idle /\ franjas = Idle /\ max_combinations = Idle
    /\ result = Idle /\ comb = Idle
    /\ blockA = Idle /\ blockB = Idle /\ claseA = Idle /\ claseB = Idle
    /\ answer = Idle
    /\ IdleFilter

\* PensumService.detect_circular_dependencies(pensum)
DetectCircularDependencies ==
    /\ pc = "pensum"
    /\ report.cycle = NotCalled
    /\ \E c \in detect_circular_dependencies(pensum) :
          report' = [report EXCEPT !.cycle = c]
    /\ UNCHANGED <<pc, pensum, before, clases_by_materia, franjas,
                   max_combinations, result, comb, blockA, blockB, claseA,
                   claseB, answer, filterVars>>

\* PensumService.validate_pensum_structure(pensum), which makes its own call
\* of detect_circular_dependencies
ValidatePensumStructure ==
    /\ pc = "pensum"
    /\ report.validation = NotCalled
    /\ \E c \in detect_circular_dependencies(pensum) :
          report' = [report EXCEPT
                        !.validation = validate_pensum_structure(pensum, c)]
    /\ UNCHANGED <<pc, pensum, before, clases_by_materia, franjas,
                   max_combinations, result, comb, blockA, blockB, claseA,
                   claseB, answer, filterVars>>

NextPensum == DetectCircularDependencies \/ ValidatePensumStructure

SpecPensum == InitPensum /\ [][NextPensum]_vars

Courses == {pensum.materias[k] : k \in DOMAIN pensum.materias}

CourseWith(code) == CHOOSE m \in Courses : m.code = code

Listed(list) == {list[k] : k \in DOMAIN list}

\* requirement -> dependent, for every prerequisite and corequisite reference
\* between courses of the catalog
DependsEdge(r, m) ==
    /\ r \in Courses /\ m \in Courses
    /\ r.code \in Listed(m.prerequisites) \cup Listed(m.corequisites)

\* courses reachable from r along at least one edge
RECURSIVE ReachFrom(_, _)
ReachFrom(frontier, seen) ==
    LET next == {m \in Courses : \E r \in frontier : DependsEdge(r, m)} \ seen
    IN IF next = {} THEN seen ELSE ReachFrom(next, seen \cup next)

Reachable(r) == ReachFrom({r}, {})

OnCycle(m) == m \in Reachable(m)

HasCycle == \E m \in Courses : OnCycle(m)

AllRefsExist ==
    \A m \in Courses :
        Listed(m.prerequisites) \cup Listed(m.corequisites) \subseteq materia_codes(pensum)

PrereqsEarlier ==
    \A m \in Courses : \A r \in Courses :
        r.code \in Listed(m.prerequisites) => r.semester < m.semester

Validated == report.validation # NotCalled

\* C19: validate_pensum_structure answers valid exactly when every required
\* code exists in the catalog, every prerequisite sits in a strictly earlier
\* semester than its dependent, and the requirement graph has no cycle; a
\* prerequisite that is not earlier has an entry in errors naming both codes
C19_ValidIffWellFormed ==
    Validated =>
        /\ report.validation.valid <=>
              (AllRefsExist /\ PrereqsEarlier /\ ~HasCycle)
        /\ \A m \in Courses : \A r \in Courses :
              (r.code \in Listed(m.prerequisites) /\ r.semester >= m.semester) =>
                  \E k \in DOMAIN report.validation.errors :
                      /\ report.validation.errors[k].code = m.code
                      /\ report.validation.errors[k].ref = r.code

\* a catalog without cycle and without unknown code is found invalid only
\* because a prerequisite shares the semester of its dependent
C19_Witness ==
    /\ Validated
    /\ ~report.validation.valid
    /\ AllRefsExist /\ ~HasCycle
    /\ Len(report.validation.errors) = 1
    /\ \E m \in Courses : \E r \in Courses :
          /\ r.code \in Listed(m.prerequisites)
          /\ r.semester = m.semester

Detected == report.cycle # NotCalled

InDay(t) == Mins(t) >= 0 /\ Mins(t) <= 23 * 60 + 59 /\ t[1] \in 0..23 /\ t[2] \in 0..59

\* C30: after calculate_metrics on a combination with at least one section,
\* earliest_start and latest_end are times of day within 00:00..23:59 and
\* earliest_start is before latest_end, sections without blocks included
C30_StartBeforeEnd ==
    (pc \in Called /\ comb.clases # <<>>) =>
        /\ InDay(comb.earliest_start) /\ InDay(comb.latest_end)
        /\ Mins(comb.earliest_start) < Mins(comb.latest_end)

-----------------------------------------------------------------------------
(* Moving a course and losing a course: can_move_to_semester and           *)
(* simulate_course_loss of PensumService, and update_materia, which the    *)
(* move is carried out with.                                                *)

\* an entry of the reasons list: the relation it reports and the code of the
\* course its text names
Reason(kind, code) == [kind |-> kind, code |-> code]

\* mutant: "prereq.semester > target_semester"
prereq_not_before_strict(prereq, target_semester) ==
    prereq.found /\ prereq.semester > target_semester

\* "if prereq and prereq.semester >= target_semester"
prereq_not_before(prereq, target_semester) ==
    prereq.found /\ prereq.semester >= target_semester

\* "for prereq_code in materia.prerequisites"
prerequisite_reasons(materia, target_semester, p) ==
    LET late == SelectSeq(materia.prerequisites,
                    LAMBDA r : prereq_not_before(get_materia(p, r),
                                                 target_semester))
    IN [k \in DOMAIN late |-> Reason("prerequisite", late[k])]

\* mutant: "other.semester < target_semester"
dependent_before(other, target_semester) ==
    other.semester < target_semester

\* "if other.semester <= target_semester"
dependent_not_after(other, target_semester) ==
    other.semester <= target_semester

\* "for other in pensum.materias": the entries each course adds
RECURSIVE dependent_reasons(_, _, _)
dependent_reasons(materia, target_semester, materias) ==
    IF materias = <<>> THEN <<>>
    ELSE LET other == materias[1]
             in(list) == \E k \in DOMAIN list : list[k] = materia.code
         IN (IF in(other.prerequisites)
                   /\ dependent_not_after(other, target_semester)
             THEN <<Reason("dependent", other.code)>> ELSE <<>>)
              \o (IF in(other.corequisites) /\ other.semester < target_semester
                  THEN <<Reason("corequisite", other.code)>> ELSE <<>>)
              \o dependent_reasons(materia, target_semester, Tail(materias))

\* can_move_to_semester(materia, target_semester, pensum)
can_move_to_semester(materia, target_semester, p) ==
    LET reasons == prerequisite_reasons(materia, target_semester, p)
                     \o dependent_reasons(materia, target_semester, p.materias)
    IN [can_move |-> Len(reasons) = 0, reasons |-> reasons]

\* the place of the course pensum.get_materia(code) returns, 0 for None
materia_index(p, code) ==
    LET hits == SelectSeq([k \in DOMAIN p.materias |-> k],
                    LAMBDA k : p.materias[k].code = upper(code))
    IN IF hits = <<>> THEN 0 ELSE hits[1]

\* "for key, value in data.items(): if hasattr(materia, key):
\* setattr(materia, key, value)": the value is stored as given
setattr_all(materia, data) ==
    [key \in DOMAIN materia |->
        IF key \in DOMAIN data THEN data[key] ELSE materia[key]]

\* the catalog once the loop of update_materia has run; total_credits is
\* not touched by it
updated(p, at, data) ==
    [p EXCEPT !.materias[at] = setattr_all(p.materias[at], data)]

\* what the operations on the catalog return
NoDetails == [valid |-> TRUE, errors |-> <<>>]

Success == [success |-> TRUE, error |-> "", dependents |-> <<>>,
            details |-> NoDetails]

Failure(error, dependents, details) ==
    [success |-> FALSE, error |-> error, dependents |-> dependents,
     details |-> details]

\* update_materia(code, data, pensum), given what the cycle check of its
\* validation returned: the catalog it leaves and the value it returns
update_materia(code, data, p, cycle) ==
    LET at == materia_index(p, code)
    IN IF at = 0
       THEN [pensum |-> p, result |-> Failure("not found", <<>>, NoDetails)]
       ELSE LET q == updated(p, at, data)
                validation == validate_pensum_structure(q, cycle)
            IN IF ~validation.valid
               THEN [pensum |-> q,
                     result |-> Failure("Update would create invalid pensum",
                                        <<>>, validation)]
               ELSE [pensum |-> [q EXCEPT
                                   !.total_credits = SumCredits(q.materias)],
                     result |-> Success]

\* the cycle checks update_materia(code, data, pensum) can meet
update_cycles(code, data, p) ==
    LET at == materia_index(p, code)
    IN IF at = 0 THEN {NoCycle}
       ELSE detect_circular_dependencies(updated(p, at, data))

\* prereq_dependents[code] / coreq_dependents[code]: the codes of the courses
\* that list code, in catalog order
dependents_on(p, code, list) ==
    LET users == SelectSeq(p.materias,
                     LAMBDA m : \E k \in DOMAIN m[list] : m[list][k] = code)
    IN [k \in DOMAIN users |-> users[k].code]

\* "for dep in ...: if dep not in visited: ....append(dep); visited.add(dep)"
RECURSIVE visit(_, _, _)
visit(deps, visited, found) ==
    IF deps = <<>> THEN [found |-> found, visited |-> visited]
    ELSE IF deps[1] \in visited THEN visit(Tail(deps), visited, found)
    ELSE visit(Tail(deps), visited \cup {deps[1]}, Append(found, deps[1]))

\* "while queue": found is indirectly_blocked; what a course adds to it is
\* also what it adds to the queue
RECURSIVE bfs(_, _, _, _)
bfs(p, queue, visited, found) ==
    IF queue = <<>> THEN found
    ELSE LET step == visit(dependents_on(p, queue[1], "prerequisites"),
                           visited, <<>>)
         IN bfs(p, Tail(queue) \o step.found, step.visited,
                found \o step.found)

CodeRank(code) == CHOOSE k \in DOMAIN PensumCodes : PensumCodes[k] = code

\* get_materia_info(codes): the codes get_materia finds, sorted by
\* (semester, code)
RECURSIVE get_materia_info(_, _, _)
get_materia_info(codes, p, placed) ==
    IF codes = <<>> THEN placed
    ELSE IF ~get_materia(p, codes[1]).found
         THEN get_materia_info(Tail(codes), p, placed)
    ELSE LET key(c) == <<get_materia(p, c).semester, CodeRank(c)>>
             stays(c) == \/ key(c)[1] < key(codes[1])[1]
                         \/ /\ key(c)[1] = key(codes[1])[1]
                            /\ key(c)[2] <= key(codes[1])[2]
         IN get_materia_info(Tail(codes), p,
                SelectSeq(placed, stays) \o <<codes[1]>>
                    \o SelectSeq(placed, LAMBDA c : ~stays(c)))

\* simulate_course_loss(materia_code, pensum); the lists hold the codes of
\* the entries
simulate_course_loss(materia_code, p) ==
    LET code == upper(materia_code)
    IN IF ~get_materia(p, code).found
       THEN [error |-> TRUE, directly_blocked |-> <<>>,
             indirectly_blocked |-> <<>>, corequisite_affected |-> <<>>,
             total_blocked_courses |-> 0]
       ELSE LET direct == visit(dependents_on(p, code, "prerequisites"),
                                {code}, <<>>)
                coreq == visit(dependents_on(p, code, "corequisites"),
                               direct.visited, <<>>)
                indirectly_blocked == bfs(p, direct.found, coreq.visited, <<>>)
            IN [error |-> FALSE,
                directly_blocked |-> get_materia_info(direct.found, p, <<>>),
                indirectly_blocked |->
                    get_materia_info(indirectly_blocked, p, <<>>),
                corequisite_affected |-> get_materia_info(coreq.found, p, <<>>),
                total_blocked_courses |->
                    Len(direct.found) + Len(indirectly_blocked)]

(* The catalogs and calls of SpecMove *)

\* catalogs of n courses in which every required code is a course
ClosedCatalogsOf(n, refs) ==
    {c \in CatalogsOf(n, refs) :
        \A k \in DOMAIN c.materias :
            \A r \in Listed(requirements(c.materias[k])) :
                r \in materia_codes(c)}

TargetSemesters == Semesters \cup {3}

InitMove ==
    /\ pc = "course"
    /\ \/ \E n \in 1..(Len(PensumCodes) - 1) : pensum \in CatalogsOf(n, MaxRefs)
       \/ pensum \in ClosedCatalogsOf(Len(PensumCodes), MaxRefs)
    /\ report = NotCalled
    /\ before = Idle
    /\ clases_by_materia = Idle /\ franjas = Idle /\ max_combinations = Idle
    /\ result = Idle /\ comb = Idle
    /\ blockA = Idle /\ blockB = Idle /\ claseA = Idle /\ claseB = Idle
    /\ answer = Idle
    /\ IdleFilter

\* PensumService.can_move_to_semester(pensum.get_materia(code), target, pensum)
CanMoveToSemester ==
    /\ pc = "course"
    /\ \E k \in DOMAIN pensum.materias, target \in TargetSemesters :
          report' = [code |-> pensum.materias[k].code, target |-> target,
                     returned |-> can_move_to_semester(pensum.materias[k],
                                                       target, pensum)]
    /\ pc' = "can_move_returned"
    /\ before' = pensum
    /\ UNCHANGED <<pensum, clases_by_materia, franjas, max_combinations,
                   result, comb, blockA, blockB, claseA, claseB, answer,
                   filterVars>>

\* the move asked about, carried out:
\* PensumService.update_materia(code, {'semester': target}, pensum)
MoveToSemester ==
    /\ pc = "can_move_returned"
    /\ LET data == [semester |-> report.target]
       IN \E c \in update_cycles(report.code, data, pensum) :
             LET done == update_materia(report.code, data, pensum, c)
             IN /\ pensum' = done.pensum
                /\ report' = [code |-> report.code, target |-> report.target,
                              can_move |-> report.returned.can_move,
                              returned |-> done.result]
    /\ pc' = "update_returned"
    /\ UNCHANGED <<before, clases_by_materia, franjas, max_combinations,
                   result, comb, blockA, blockB, claseA, claseB, answer,
                   filterVars>>

\* PensumService.simulate_course_loss(code, pensum)
SimulateCourseLoss ==
    /\ pc = "course"
    /\ \E k \in DOMAIN pensum.materias :
          report' = [code |-> pensum.materias[k].code,
                     returned |-> simulate_course_loss(pensum.materias[k].code,
                                                       pensum)]
    /\ pc' = "loss_returned"
    /\ before' = pensum
    /\ UNCHANGED <<pensum, clases_by_materia, franjas, max_combinations,
                   result, comb, blockA, blockB, claseA, claseB, answer,
                   filterVars>>

NextMove == CanMoveToSemester \/ MoveToSemester \/ SimulateCourseLoss

SpecMove == InitMove /\ [][NextMove]_vars

(* can_move_to_semester: the relations a move would break *)

Asked == CourseWith(report.code)

LatePrerequisites ==
    {r \in Listed(Asked.prerequisites) :
        \E c \in Courses : c.code = r /\ c.semester >= report.target}

EarlyDependents ==
    {c.code : c \in {d \in Courses :
                        /\ Asked.code \in Listed(d.prerequisites)
                        /\ d.semester <= report.target}}

EarlierCorequisiteUsers ==
    {c.code : c \in {d \in Courses :
                        /\ Asked.code \in Listed(d.corequisites)
                        /\ d.semester < report.target}}

BrokenRelations ==
    {Reason("prerequisite", r) : r \in LatePrerequisites}
        \cup {Reason("dependent", r) : r \in EarlyDependents}
        \cup {Reason("corequisite", r) : r \in EarlierCorequisiteUsers}

\* C21: can_move_to_semester(course, t, catalog) answers can_move = true
\* exactly when no prerequisite of the course is in a semester >= t, no
\* course listing it as prerequisite is in a semester <= t and no course
\* listing it as corequisite is in a semester < t; reasons holds one entry
\* for each broken relation, all of them; the catalog is left as it was
C21_CanMoveIffNoBrokenRelation ==
    pc = "can_move_returned" =>
        /\ report.returned.can_move <=> BrokenRelations = {}
        /\ Listed(report.returned.reasons) = BrokenRelations
        /\ Len(report.returned.reasons) = Cardinality(BrokenRelations)
        /\ pensum = before

C21_Witness ==
    /\ pc = "can_move_returned"
    /\ LatePrerequisites \ {Asked.code} # {}
    /\ EarlyDependents \ {Asked.code} # {}
    /\ Len(report.returned.reasons) >= 2
    /\ ~report.returned.can_move

(* update_materia after can_move_to_semester *)

\* validate_pensum_structure(p)['valid']; whichever codes the cycle check
\* names, it names some exactly when a cycle is left
IsValid(p) ==
    \A c \in detect_circular_dependencies(p) :
        validate_pensum_structure(p, c).valid

\* C29: on a valid catalog, when can_move_to_semester(c, t) answers
\* can_move = true, update_materia(c.code, {semester: t}) returns success,
\* the course is in semester t and the catalog it leaves is valid
C29_AllowedMoveSucceeds ==
    (pc = "update_returned" /\ IsValid(before) /\ report.can_move) =>
        /\ report.returned.success
        /\ Asked.semester = report.target
        /\ IsValid(pensum)
        /\ pensum.total_credits = SumCredits(pensum.materias)

C29_Witness ==
    /\ pc = "update_returned"
    /\ IsValid(before)
    /\ report.can_move
    /\ report.returned.success
    /\ pensum # before
    /\ \/ \E r \in Listed(Asked.prerequisites) : r \in materia_codes(pensum)
       \/ \E d \in Courses : Asked.code \in Listed(d.prerequisites)

(* simulate_course_loss: the courses behind the lost one *)

\* the courses that list code as prerequisite
PrerequisiteUsers(code) ==
    {d.code : d \in {c \in Courses : code \in Listed(c.prerequisites)}}

RECURSIVE BlockedFrom(_, _)
BlockedFrom(frontier, seen) ==
    IF frontier = {} THEN seen
    ELSE LET next == UNION {PrerequisiteUsers(c) : c \in frontier}
         IN BlockedFrom(next \ seen, seen \cup next)

\* the courses reached from code along prerequisite-dependent edges
Blocked(code) == BlockedFrom({code}, {}) \ {code}

NoRepeats(list) == Cardinality(Listed(list)) = Len(list)

\* C22: simulate_course_loss(c) returns as directly_blocked the courses that
\* list c as prerequisite, and directly_blocked and indirectly_blocked
\* together are the courses other than c reached from c along
\* prerequisite-dependent edges, with no course twice or in both lists;
\* total_blocked_courses is their number
C22_BlockedIsReachable ==
    pc = "loss_returned" =>
        LET out == report.returned
        IN /\ ~out.error
           /\ Listed(out.directly_blocked)
                = PrerequisiteUsers(report.code) \ {report.code}
           /\ Listed(out.directly_blocked) \cup Listed(out.indirectly_blocked)
                = Blocked(report.code)
           /\ NoRepeats(out.directly_blocked \o out.indirectly_blocked)
           /\ out.total_blocked_courses = Cardinality(Blocked(report.code))

-----------------------------------------------------------------------------
(* Changing the catalog: create_materia, update_materia and delete_materia *)
(* of PensumService, called one after another on the same catalog.         *)

\* the values the Field constraints of Materia admit
CreditsRange == 1..10
SemesterRange == 1..15

\* Materia(**data) raises ValidationError unless the fields are in range
constructible(data) ==
    data.credits \in CreditsRange /\ data.semester \in SemesterRange

\* "for prereq in materia.prerequisites: if not pensum.get_materia(prereq)"
all_found(p, codes) ==
    \A k \in DOMAIN codes : get_materia(p, codes[k]).found

\* create_materia(data, pensum): the catalog it leaves and the value it
\* returns
create_materia(data, p) ==
    IF get_materia(p, data.code).found
    THEN [pensum |-> p, result |-> Failure("already exists", <<>>, NoDetails)]
    ELSE IF ~constructible(data)
    THEN [pensum |-> p,
          result |-> Failure("validation error", <<>>, NoDetails)]
    ELSE LET materia == Materia(data.code, data.credits, data.semester,
                                data.prerequisites, data.corequisites)
         IN IF ~all_found(p, materia.prerequisites)
            THEN [pensum |-> p,
                  result |-> Failure("Prerequisite not found", <<>>,
                                     NoDetails)]
            ELSE IF ~all_found(p, materia.corequisites)
            THEN [pensum |-> p,
                  result |-> Failure("Corequisite not found", <<>>,
                                     NoDetails)]
            ELSE [pensum |-> Pensum(Append(p.materias, materia)),
                  result |-> Success]

\* delete_materia(code, pensum)
delete_materia(code, p) ==
    LET c == upper(code)
        uses(m) == \E r \in Listed(m.prerequisites) \cup Listed(m.corequisites) :
                       r = c
        users == SelectSeq(p.materias, uses)
        dependents == [k \in DOMAIN users |-> users[k].code]
    IN IF ~get_materia(p, c).found
       THEN [pensum |-> p, result |-> Failure("not found", <<>>, NoDetails)]
       ELSE IF dependents # <<>>
       THEN [pensum |-> p,
             result |-> Failure("Cannot delete", dependents, NoDetails)]
       ELSE [pensum |-> Pensum(SelectSeq(p.materias, LAMBDA m : m.code # c)),
             result |-> Success]

(* The catalogs and calls of SpecCrud *)

MaxCalls == 2

NewCourse(code, credits, semester, prerequisites, corequisites) ==
    [code |-> code, credits |-> credits, semester |-> semester,
     prerequisites |-> prerequisites, corequisites |-> corequisites]

\* the data handed to create_materia
CreateData ==
    {NewCourse("MAT3", 3, 2, <<>>, <<>>),
     NewCourse("mat3", 4, 2, <<"mat1">>, <<>>),
     NewCourse("MAT3", 3, 1, <<"MAT1">>, <<"MAT2">>),
     NewCourse("MAT1 ", 3, 1, <<>>, <<>>),
     NewCourse("mat1", 3, 1, <<>>, <<>>),
     NewCourse("MAT3", 3, 2, <<MissingCode>>, <<>>),
     NewCourse("MAT3", 3, 2, <<>>, <<MissingCode>>),
     NewCourse("MAT3", 0, 2, <<>>, <<>>)}

\* the data handed to update_materia; "nickname" is no attribute of Materia
UpdateData ==
    {[semester |-> 1],
     [semester |-> 2],
     [credits |-> 5],
     [credits |-> 5, semester |-> 1],
     [prerequisites |-> <<"MAT1">>],
     [prerequisites |-> <<>>, corequisites |-> <<>>],
     [code |-> "mat1"],
     [code |-> "MAT2"],
     [nickname |-> "x"]}

\* the codes handed to update_materia and delete_materia
CallCodes == {"MAT1", "mat2", "MAT3"}

NoCall == [calls |-> 0, op |-> "none", code |-> "", data |-> <<>>,
           returned |-> Success]

InitCrud ==
    /\ pc = "catalog"
    /\ \E n \in 0..(Len(PensumCodes) - 1) : pensum \in CatalogsOf(n, MaxRefs)
    /\ report = NoCall
    /\ before = pensum
    /\ clases_by_materia = Idle /\ franjas = Idle /\ max_combinations = Idle
    /\ result = Idle /\ comb = Idle
    /\ blockA = Idle /\ blockB = Idle /\ claseA = Idle /\ claseB = Idle
    /\ answer = Idle
    /\ IdleFilter

CallReturns(op, code, data, done) ==
    /\ pensum' = done.pensum
    /\ report' = [calls |-> report.calls + 1, op |-> op, code |-> code,
                  data |-> data, returned |-> done.result]
    /\ before' = pensum
    /\ UNCHANGED <<pc, clases_by_materia, franjas, max_combinations, result,
                   comb, blockA, blockB, claseA, claseB, answer, filterVars>>

\* PensumService.create_materia(data, pensum)
CreateMateria ==
    /\ pc = "catalog"
    /\ report.calls < MaxCalls
    /\ \E data \in CreateData :
          CallReturns("create", data.code, data, create_materia(data, pensum))

\* PensumService.update_materia(code, data, pensum)
UpdateMateria ==
    /\ pc = "catalog"
    /\ report.calls < MaxCalls
    /\ \E code \in CallCodes, data \in UpdateData :
          \E c \in update_cycles(code, data, pensum) :
             CallReturns("update", code, data,
                      update_materia(code, data, pensum, c))

\* PensumService.delete_materia(code, pensum)
DeleteMateria ==
    /\ pc = "catalog"
    /\ report.calls < MaxCalls
    /\ \E code \in CallCodes :
          CallReturns("delete", code, <<>>, delete_materia(code, pensum))

NextCrud == CreateMateria \/ UpdateMateria \/ DeleteMateria

SpecCrud == InitCrud /\ [][NextCrud]_vars

(* The catalog before and after a call *)

CoursesOf(p) == {p.materias[k] : k \in DOMAIN p.materias}

LastCall(op) == pc = "catalog" /\ report.op = op

\* the other courses of the catalog that list code
OtherUsers(p, code) ==
    {m.code : m \in {d \in CoursesOf(p) :
                        /\ d.code # code
                        /\ code \in Listed(d.prerequisites)
                                      \cup Listed(d.corequisites)}}

\* C23: delete_materia(code) on a course of the catalog fails exactly when
\* some other course lists code as prerequisite or corequisite, and its
\* dependents are then those courses; otherwise it removes that course,
\* leaves the others as they were and returns success; a code of no course
\* returns an error
C23_DeleteFailsIffOthersDepend ==
    LastCall("delete") =>
        LET code == upper(report.code)
            out == report.returned
        IN IF code \notin materia_codes(before)
           THEN ~out.success /\ pensum = before
           ELSE IF OtherUsers(before, code) # {}
           THEN /\ ~out.success
                /\ Listed(out.dependents) = OtherUsers(before, code)
                /\ pensum = before
           ELSE /\ out.success
                /\ pensum.materias
                     = SelectSeq(before.materias, LAMBDA m : m.code # code)

NamesKnownCourses(p, codes) ==
    \A r \in Listed(codes) : normalized(r) \in materia_codes(p)

\* C24: create_materia returns an error and adds nothing whenever the new
\* course's upper-cased, trimmed code is the code of a course of the catalog
\* or one of its prerequisites or corequisites names no course of the
\* catalog; otherwise valid data appends exactly one course at the end
C24_CreateRejectsDuplicatesAndDangling ==
    LastCall("create") =>
        LET data == report.data
            taken == normalized(data.code) \in materia_codes(before)
            known == /\ NamesKnownCourses(before, data.prerequisites)
                     /\ NamesKnownCourses(before, data.corequisites)
        IN /\ (taken \/ ~known) =>
                  ~report.returned.success /\ pensum = before
           /\ (~taken /\ known /\ constructible(data)) =>
                  /\ report.returned.success
                  /\ Len(pensum.materias) = Len(before.materias) + 1
                  /\ SubSeq(pensum.materias, 1, Len(before.materias))
                       = before.materias
                  /\ pensum.materias[Len(pensum.materias)].code
                       = normalized(data.code)

\* C25: after any sequence of create_materia, update_materia and
\* delete_materia calls, whatever each returned, total_credits is the sum of
\* the credits of the courses of the catalog
C25_TotalCreditsIsSum ==
    pc = "catalog" => pensum.total_credits = SumCredits(pensum.materias)

\* C26: starting from pairwise distinct upper-case codes, after any sequence
\* of create_materia, update_materia and delete_materia calls no two courses
\* of the catalog share a code and every code is upper-case
C26_CodesUniqueAndUpper ==
    pc = "catalog" =>
        /\ \A i, j \in DOMAIN pensum.materias :
              i # j => pensum.materias[i].code # pensum.materias[j].code
        /\ \A i \in DOMAIN pensum.materias :
              pensum.materias[i].code = upper(pensum.materias[i].code)

\* C27: starting from a catalog validate_pensum_structure finds valid, after
\* a create_materia, update_materia or delete_materia call that returns
\* success, validate_pensum_structure finds the resulting catalog valid
C27_SuccessKeepsValid ==
    (pc = "catalog" /\ report.calls > 0 /\ IsValid(before)
        /\ report.returned.success) => IsValid(pensum)

\* C28: when create_materia, update_materia or delete_materia returns an
\* error, the catalog (its courses, every field of each, total_credits) is
\* what it was before the call
C28_RejectedChangesNothing ==
    (pc = "catalog" /\ report.calls > 0 /\ ~report.returned.success)
        => pensum = before

=============================================================================
